---------------------------- MODULE Spec2Model ----------------------------
(***************************************************************************)
(* Model of the asynchronous job bridge of the YouTube -> Audio downloader *)
(* (src/app/gui.py, src/app/downloader.py).                                *)
(*                                                                         *)
(* Two execution contexts are modelled:                                    *)
(*   - the Tk UI thread: the user's actions on the widgets, the handler    *)
(*     on_convert_clicked and the self-rescheduling timer callback         *)
(*     _poll_events;                                                       *)
(*   - the worker threads started by on_convert_clicked, each running      *)
(*     _download_worker -> AudioDownloader.download_audio.                 *)
(* They share only the queue.Queue `events`.  A worker step is one         *)
(* statement that touches the queue (or one call of the external fetch     *)
(* tool into the progress hook); a poll step is one get_nowait() plus the  *)
(* application of the event it returned.  While a poll tick is running, no *)
(* other UI callback runs (Tk runs callbacks one at a time).               *)
(*                                                                         *)
(* Variables named h_* are history variables: they record what happened    *)
(* and are never read by an action's guard or by the program state.        *)
(*                                                                         *)
(* The message boxes hold no state.  The settings (src/app/settings.py,    *)
(* src/app/config.py) are a path in memory and the content of the settings *)
(* file; the directories are the set of those that exist.  Spec is the job *)
(* bridge; SpecApp adds the save-location chooser, SpecDirs a user who     *)
(* removes the output directory; SpecSettings and SpecHook drive           *)
(* settings.py and the downloader's emissions on their own.                *)
(* The puts of a thread are enabled only while fewer than MaxQueue events  *)
(* wait in the queue; the queue of the program is unbounded.               *)
(***************************************************************************)
EXTENDS Integers, Sequences, FiniteSets

\* ------------------------------------------------------------------ bounds

\* Number of worker threads the model lets on_convert_clicked start.
MaxJobs == 2
\* Number of progress records the external fetch tool reports per job.
MaxRecords == 1
\* Number of events the model lets wait in the (unbounded) queue.
MaxQueue == 2
\* Number of times the model lets the user pick a save location.
MaxChoices == 1

\* -------------------------------------------------------- program constants

\* Upper end of the progress bar (maximum=100) and of the clamp.
PCT_MAX == 100

Jobs == 1..MaxJobs

\* Python's None, for the optional fields of a progress record.
None == -1

\* OUTPUT_FORMATS: (label, value) pairs of the format combobox.
OUTPUT_FORMATS == { <<"Best (original)", "best">>, <<"MP3 (requires FFmpeg)", "mp3">> }
DEFAULT_OUTPUT_FORMAT == "best"

FormatLabels == { p[1] : p \in OUTPUT_FORMATS }

\* self._format_value_to_label[value]
FormatValueToLabel(v) == (CHOOSE p \in OUTPUT_FORMATS : p[2] = v)[1]

\* self._format_label_to_value.get(label, "best")
FormatLabelToValue(l) ==
    IF \E p \in OUTPUT_FORMATS : p[1] = l
    THEN (CHOOSE p \in OUTPUT_FORMATS : p[1] = l)[2]
    ELSE "best"

\* What the user can have typed into the URL entry.
Urls == { "", " ", "u" }

\* Mutant of Strip: the text is tested as typed.
StripNothing(s) == s

\* str.strip() on the modelled URL texts.
Strip(s) == IF s = " " THEN "" ELSE s

\* The message of the RuntimeError raised when ffmpeg/ffprobe is missing.
FFMPEG_GUIDANCE == "FFmpeg is required for MP3 conversion but was not found on PATH. Install FFmpeg ..."
\* The message of a failure raised by the external fetch tool.
FETCH_ERROR == "DownloadError"

\* Progress records the external fetch tool hands to the progress hook.
ProgressRecords ==
    { [status |-> "downloading", downloaded_bytes |-> 1, total_bytes |-> 2,
       total_bytes_estimate |-> None, speed |-> 1, eta |-> 0],
      [status |-> "downloading", downloaded_bytes |-> 3, total_bytes |-> None,
       total_bytes_estimate |-> 2, speed |-> None, eta |-> None],
      [status |-> "downloading", downloaded_bytes |-> 1, total_bytes |-> None,
       total_bytes_estimate |-> None, speed |-> 0, eta |-> None],
      [status |-> "downloading", downloaded_bytes |-> None, total_bytes |-> 0,
       total_bytes_estimate |-> 0, speed |-> None, eta |-> None],
      [status |-> "finished", downloaded_bytes |-> 3, total_bytes |-> 3,
       total_bytes_estimate |-> None, speed |-> None, eta |-> None],
      [status |-> "error", downloaded_bytes |-> None, total_bytes |-> None,
       total_bytes_estimate |-> None, speed |-> None, eta |-> None] }

\* A value of the wrong type (a text) where a progress record holds a number.
NotANumber == -2

\* The exception Python raises when such a value meets arithmetic or `>`.
HOOK_ERROR == "TypeError"

\* Malformed progress records: a number field holds a text.
MalformedRecords ==
    { [status |-> "downloading", downloaded_bytes |-> 1, total_bytes |-> NotANumber,
       total_bytes_estimate |-> None, speed |-> None, eta |-> None] }

\* Every progress record over a few values per field.
AllRecords ==
    [ status : { "downloading", "finished", "error" },
      downloaded_bytes : { None, 0, 1, 3 },
      total_bytes : { None, 0, 2 },
      total_bytes_estimate : { None, 0, 2 },
      speed : { None, 0, 1 },
      eta : { None, 0, 5 } ]

\* No progress record yet.
NoRecord == [status |-> "", downloaded_bytes |-> None, total_bytes |-> None,
             total_bytes_estimate |-> None, speed |-> None, eta |-> None]

\* Metadata records the external fetch tool returns (None: field absent).
Infos ==
    { [title |-> "t", id |-> "i", ext |-> "m4a"],
      [title |-> "None", id |-> "None", ext |-> "None"] }

\* ------------------------------------------------------------------ state

VARIABLES
    url_var,        \* text of the URL entry
    format_combo,   \* label shown by the format combobox
    busy,           \* _set_busy: TRUE when the input controls are disabled
    progress,       \* self.progress["value"]
    status_var,     \* text of the status line
    log,            \* number of lines of the log view
    worker,         \* self._worker: 0 is None, else the thread's number
    njobs,          \* number of threads started so far
    wpc,            \* wpc[j]: position of thread j in _download_worker
    wfmt,           \* wfmt[j]: the output_format argument of thread j
    wrecs,          \* wrecs[j]: progress records reported to thread j's fetch
    wbuf,           \* wbuf[j]: events the running hook call has still to put
    wlocal,         \* wlocal[j]: thread j's caught exception text and its result
    events,         \* self._events, the queue
    pollpc,         \* "scheduled": the timer is pending; "running": in _poll_events
    after_count,    \* number of pending self.after(POLL_MS, self._poll_events)
    h_fifo,         \* events put and not yet applied, oldest first
    h_due,          \* the event that left h_fifo at the last application
    h_last,         \* the event the UI applied last
    h_terms,        \* h_terms[j]: terminal events thread j has put
    h_fetched,      \* h_fetched[j]: running thread j entered the fetch tool
    h_ffmiss,       \* h_ffmiss[j]: running thread j had ffmpeg or ffprobe missing
    h_tail,         \* h_tail[j]: the last three events running thread j has put
    h_applied,      \* threads whose terminal event the UI has applied
    h_tickMany,     \* the running tick began with several events queued
    h_tickLeft,     \* events queued at the tick's start and not yet applied
    h_tickRaised,   \* the last tick ended by an exception while applying
    settings,       \* self.settings.save_root, a path
    save_path_var,  \* text of the read-only "Save to" entry
    fs_file,        \* the settings file: absent, or its content
    fs_cfg_ok,      \* the configuration directory exists or can be created
    nchoices,       \* number of save locations picked so far
    fs_dirs,        \* the directories that exist below the save roots
    wdir,           \* wdir[j]: the out_dir argument of thread j
    st_op,          \* settings.py called directly: the last call made
    st_raised,      \* ... whether that call raised
    st_saved,       \* ... the save root last saved, while the file is untouched
    hk_pc,          \* download_audio called directly: its position
    hk_n,           \* ... progress records reported so far
    hk_d,           \* ... the record of the last hook call
    hk_out,         \* ... the events of the last emission step
    hk_known,       \* ... some record so far had a positive total
    hk_nprog        \* ... Progress events emitted so far

uiVars == <<url_var, format_combo, busy, progress, status_var, log>>
threadVars == <<wpc, wfmt, wrecs, wbuf, wlocal>>
pollVars == <<pollpc, after_count, h_tickMany, h_tickLeft, h_tickRaised>>
putVars == <<events, h_fifo, h_terms, h_tail>>
histVars == <<h_due, h_last, h_applied, h_fetched, h_ffmiss>>
settingsVars == <<settings, save_path_var, fs_file, fs_cfg_ok, nchoices>>
dirVars == <<fs_dirs, wdir>>
callVars == <<st_op, st_raised, st_saved>>
hookVars == <<hk_pc, hk_n, hk_d, hk_out, hk_known, hk_nprog>>
envVars == <<settingsVars, callVars, hookVars>>

vars == <<url_var, format_combo, busy, progress, status_var, log, worker, njobs,
          wpc, wfmt, wrecs, wbuf, wlocal, events, pollpc, after_count,
          h_fifo, h_due, h_last, h_terms, h_fetched, h_ffmiss, h_tail,
          h_applied, h_tickMany, h_tickLeft, h_tickRaised,
          settings, save_path_var, fs_file, fs_cfg_ok, nchoices, fs_dirs, wdir,
          st_op, st_raised, st_saved,
          hk_pc, hk_n, hk_d, hk_out, hk_known, hk_nprog>>

\* ---------------------------------------------------------------- helpers

Min(a, b) == IF a < b THEN a ELSE b
Max(a, b) == IF a > b THEN a ELSE b

\* Python's `x or y` on the optional numbers of a progress record.
PyOr(x, y) == IF x = None \/ x = 0 THEN y ELSE x

\* The last n elements of s (all of s when it is shorter).
LastN(s, n) == IF Len(s) <= n THEN s ELSE SubSeq(s, Len(s) - n + 1, Len(s))

\* DownloadResult before download_audio has made one.
NoResult == [file_path |-> << >>, title |-> "", ext |-> ""]

\* The payload of a UiEvent is a Python object: a text (status, error), a
\* number (progress) or a DownloadResult (done).  It is kept as a record
\* with one field per reading, the fields an event does not use left empty.
StatusPayload(msg) == [text |-> msg, pct |-> 0, result |-> NoResult]
ProgressPayload(pct) == [text |-> << >>, pct |-> pct, result |-> NoResult]
ResultPayload(res) == [text |-> << >>, pct |-> 0, result |-> res]
ErrorPayload(msg) == [text |-> << msg >>, pct |-> 0, result |-> NoResult]

\* UiEvent(kind, payload)
UiEvent(kind, payload) == [kind |-> kind, payload |-> payload]

\* What a thread keeps between its steps: the text of the exception it
\* caught, or the result download_audio returned.
NoLocal == [exc |-> "", result |-> NoResult]

TerminalKinds == { "done", "error" }

\* threading.Thread.is_alive(): from start() until the run method has ended.
IsAlive(j) == wpc[j] \notin { "unstarted", "dead" }


\* ------------------------------------------------- downloader.py: pure part

\* AudioDownloader._emit_status: status_cb(msg); status_cb builds the event.
_emit_status(msg) == UiEvent("status", StatusPayload(msg))

\* Mutant of _emit_progress: the percentage is passed on without the clamp.
_emit_progress_unclamped(pct) == UiEvent("progress", ProgressPayload(pct))

\* AudioDownloader._emit_progress: progress_cb(max(0.0, min(100.0, pct))).
_emit_progress(pct) == UiEvent("progress", ProgressPayload(Max(0, Min(PCT_MAX, pct))))

\* Mutant of _ensure_ffmpeg_available: only ffmpeg is looked up.
_ensure_ffmpeg_only(ffmpeg, ffprobe) == IF ~ffmpeg THEN FFMPEG_GUIDANCE ELSE ""

\* AudioDownloader._ensure_ffmpeg_available, given what shutil.which finds:
\* the message of the RuntimeError it raises, or "" when it returns.
_ensure_ffmpeg_available(ffmpeg, ffprobe) ==
    IF ~ffmpeg \/ ~ffprobe THEN FFMPEG_GUIDANCE ELSE ""

\* Mutant of _progress_hook: the `if total > 0` tests are missing, the
\* percentage of an unknown total counting as 0.
_progress_hook_any_total(d) ==
    IF d.status = "downloading" THEN
        LET downloaded == PyOr(d.downloaded_bytes, 0)
            total == PyOr(PyOr(d.total_bytes, d.total_bytes_estimate), 0)
            pct == IF total > 0 THEN (downloaded * 100) \div total ELSE 0
            speed_part ==
                IF d.speed # None /\ d.speed # 0 THEN << "@ speed MiB/s" >>
                ELSE << >>
            eta_part == IF d.eta # None THEN << "ETA eta s" >> ELSE << >>
        IN  << _emit_progress(pct),
               _emit_status(<< "Downloading:", "downloaded / total MiB" >>
                            \o speed_part \o eta_part) >>
    ELSE IF d.status = "finished" THEN
        << _emit_status(<< "Download finished. Finalizing..." >>) >>
    ELSE << >>

\* AudioDownloader._progress_hook: the events one progress record makes the
\* hook emit, in emission order.  The percentage is kept as a whole number;
\* the texts of the byte counts are kept as the phrases they are built from.
_progress_hook(d) ==
    IF d.status = "downloading" THEN
        LET downloaded == PyOr(d.downloaded_bytes, 0)
            total == PyOr(PyOr(d.total_bytes, d.total_bytes_estimate), 0)
            pct_events ==
                IF total > 0
                THEN << _emit_progress((downloaded * 100) \div total) >>
                ELSE << >>
            size_part ==
                IF total > 0 THEN << "downloaded / total MiB" >>
                ELSE << "downloaded MiB" >>
            speed_part ==
                IF d.speed # None /\ d.speed # 0 THEN << "@ speed MiB/s" >>
                ELSE << >>
            eta_part == IF d.eta # None THEN << "ETA eta s" >> ELSE << >>
        IN  pct_events \o
            << _emit_status(<< "Downloading:" >> \o size_part \o speed_part \o eta_part) >>
    ELSE IF d.status = "finished" THEN
        << _emit_status(<< "Download finished. Finalizing..." >>) >>
    ELSE << >>

\* AudioDownloader._progress_hook has no try/except: whether handling record
\* d raises.  `total > 0` raises on a text total; the divisions raise on a
\* text downloaded_bytes or speed; eta is only formatted.
_progress_hook_raises(d) ==
    /\ d.status = "downloading"
    /\ LET downloaded == PyOr(d.downloaded_bytes, 0)
           total == PyOr(PyOr(d.total_bytes, d.total_bytes_estimate), 0)
       IN  NotANumber \in { downloaded, total, d.speed }

\* The events the hook has emitted when it raises on record d: the Progress
\* event, when only the speed is malformed.
_progress_hook_before_raise(d) ==
    LET downloaded == PyOr(d.downloaded_bytes, 0)
        total == PyOr(PyOr(d.total_bytes, d.total_bytes_estimate), 0)
    IN  IF downloaded # NotANumber /\ total # NotANumber /\ total > 0
        THEN << _emit_progress((downloaded * 100) \div total) >>
        ELSE << >>

\* download_audio after extract_info returned `info`: the DownloadResult.
DownloadResult(info, output_format) ==
    LET title == IF info.title = "None" THEN "output" ELSE info.title
        video_id == IF info.id = "None" THEN "unknown" ELSE info.id
        ext == IF output_format = "mp3" THEN "mp3"
               ELSE IF info.ext = "None" THEN "webm" ELSE info.ext
    IN  [file_path |-> << title, video_id, ext >>, title |-> title, ext |-> ext]

\* Mutant of FinalEvents: the forced 100 is emitted before Status("Done.").
FinalEventsSwapped == << _emit_progress(PCT_MAX), _emit_status(<< "Done." >>) >>

\* download_audio's last two emissions before it returns, in order.
FinalEvents == << _emit_status(<< "Done." >>), _emit_progress(PCT_MAX) >>

\* ------------------------------------- config.py, settings.py: pure part

\* A text that names a path is the sequence of its components as written:
\* it may hold empty components (a doubled or a trailing separator) and "."
\* components.  pathlib.Path(text) drops both.
Path(text) == [parts |-> SelectSeq(text, LAMBDA c : c # "" /\ c # ".")]

\* str(path): the components as pathlib keeps them; "." for the empty path.
PathStr(p) == IF p.parts = << >> THEN << "." >> ELSE p.parts

\* No path (a thread that is not running has no out_dir).
NoPath == [parts |-> << >>]

\* _default_save_root(): Downloads under the home directory when it exists,
\* else the home directory.
_default_save_root(downloads_exists) ==
    IF downloads_exists THEN Path(<< "home", "Downloads" >>) ELSE Path(<< "home" >>)

\* DEFAULT_SAVE_ROOT, computed at import on a machine that has Downloads.
DEFAULT_SAVE_ROOT == _default_save_root(TRUE)

OUTPUT_SUBDIR_NAME == "downloaded_audios"

\* Texts naming a directory: as the directory dialog returns them (the empty
\* text when it is cancelled) and as a settings file may hold them.
RootTexts ==
    { << >>, << "home", "Downloads" >>, << "home", "music" >>,
      << "home", "music", "" >>, << "home", ".", "music" >> }

\* The settings file is absent.
MissingFile == [state |-> "missing", top |-> "", has |-> FALSE, vtype |-> "", text |-> << >>]

\* The settings file holds text that json.loads rejects.
GarbageFile == [state |-> "garbage", top |-> "", has |-> FALSE, vtype |-> "", text |-> << >>]

\* The settings file holds JSON text: the type of the top-level value,
\* whether an object has the key "save_root", the type of that key's value
\* and, for a string, its text.
JsonFile(top, has, vtype, text) ==
    [state |-> "json", top |-> top, has |-> has, vtype |-> vtype, text |-> text]

\* What the settings file can hold.
FileContents ==
    { MissingFile, GarbageFile }
    \cup { JsonFile(top, FALSE, "", << >>) : top \in { "array", "number", "null", "object" } }
    \cup { JsonFile("object", TRUE, vtype, << >>) : vtype \in { "number", "null", "array" } }
    \cup { JsonFile("object", TRUE, "string", t) : t \in RootTexts }

\* get_settings_path: cfg_dir.mkdir(parents=True, exist_ok=True) raises when
\* the configuration directory neither exists nor can be created.
get_settings_path_raises(cfg_ok) == ~cfg_ok

\* Mutant of save_settings: the root is written under another key.
save_settings_other_key(root) == JsonFile("object", FALSE, "", << >>)

\* save_settings, once get_settings_path has returned: the file content
\* json.dumps({"save_root": str(settings.save_root)}) written by write_text.
save_settings(root) == JsonFile("object", TRUE, "string", PathStr(root))

\* load_settings, once get_settings_path has returned: the save_root of the
\* AppSettings it returns.  Every exception of the try block (json.loads on
\* text that is not JSON, data.get on a value that is not an object, Path()
\* on a value that is not a string) ends in AppSettings().
load_settings(file) ==
    IF file.state = "missing" THEN DEFAULT_SAVE_ROOT
    ELSE IF file.state # "json" THEN DEFAULT_SAVE_ROOT
    ELSE IF file.top # "object" THEN DEFAULT_SAVE_ROOT
    ELSE IF ~file.has THEN Path(PathStr(DEFAULT_SAVE_ROOT))
    ELSE IF file.vtype # "string" THEN DEFAULT_SAVE_ROOT
    ELSE Path(file.text)

\* App._get_output_dir: Path(self.settings.save_root) / OUTPUT_SUBDIR_NAME.
_get_output_dir(root) == [parts |-> Append(Path(PathStr(root)).parts, OUTPUT_SUBDIR_NAME)]

\* Path.mkdir(parents=True, exist_ok=True): the directory and its parents exist.
Mkdir(dirs, p) ==
    dirs \cup { [parts |-> SubSeq(p.parts, 1, n)] : n \in 1..Len(p.parts) }

\* Mutant of _ensure_output_dir: the directory is not created.
_ensure_output_dir_skipped(dirs, root) == dirs

\* App._ensure_output_dir: self._get_output_dir().mkdir(parents=True, exist_ok=True).
_ensure_output_dir(dirs, root) == Mkdir(dirs, _get_output_dir(root))

\* The directories the directory dialog can be pointed at.
ExistingRoots == Mkdir(Mkdir({ }, DEFAULT_SAVE_ROOT), Path(<< "home", "music" >>))

\* ------------------------------------------------------------- the queue

\* Mutant of QueuePut: a LIFO queue (queue.LifoQueue), read from the same end.
QueuePutFront(q, e) == << e >> \o q

\* queue.Queue.put: the queue is FIFO.
QueuePut(q, e) == Append(q, e)

\* self._events.put(ev) by thread j.  The event is tagged with its thread.
Put(j, ev) ==
    /\ Len(events) < MaxQueue
    /\ LET tagged == [kind |-> ev.kind, payload |-> ev.payload, job |-> j]
       IN  /\ events' = QueuePut(events, tagged)
           /\ h_fifo' = Append(h_fifo, tagged)
    /\ h_terms' = [h_terms EXCEPT ![j] = IF ev.kind \in TerminalKinds THEN @ + 1 ELSE @]
    /\ h_tail' = [h_tail EXCEPT ![j] = LastN(Append(@, ev), 3)]

\* ------------------------------------------------------ the worker thread

\* _download_worker up to download_audio's first emission: the downloader is
\* constructed (its __init__ creates out_dir) and, for mp3, ffmpeg and ffprobe are looked up on PATH.
WorkerBegin(j) ==
    /\ wpc[j] = "started"
    /\ \E ffmpeg \in BOOLEAN, ffprobe \in BOOLEAN :
        LET raised == IF wfmt[j] = "mp3"
                      THEN _ensure_ffmpeg_available(ffmpeg, ffprobe) ELSE ""
        IN  /\ h_ffmiss' = [h_ffmiss EXCEPT
                  ![j] = (wfmt[j] = "mp3" /\ ~(ffmpeg /\ ffprobe))]
            /\ IF raised # ""
               THEN /\ wpc' = [wpc EXCEPT ![j] = "except"]
                    /\ wlocal' = [wlocal EXCEPT ![j].exc = raised]
               ELSE /\ wpc' = [wpc EXCEPT ![j] = "prepare"]
                    /\ UNCHANGED wlocal
    /\ fs_dirs' = Mkdir(fs_dirs, wdir[j])
    /\ UNCHANGED << envVars, wdir, uiVars, worker, njobs, wfmt, wrecs, wbuf, putVars,
                    pollVars, h_due, h_last, h_applied, h_fetched >>

\* download_audio: _emit_status("Preparing download..."), then the external
\* fetch tool is entered.
EmitPreparing(j) ==
    /\ wpc[j] = "prepare"
    /\ Put(j, _emit_status(<< "Preparing download..." >>))
    /\ wpc' = [wpc EXCEPT ![j] = "fetch"]
    /\ h_fetched' = [h_fetched EXCEPT ![j] = TRUE]
    /\ UNCHANGED << envVars, dirVars, uiVars, worker, njobs, wfmt, wrecs, wbuf, wlocal, pollVars,
                    h_due, h_last, h_applied, h_ffmiss >>

\* The external fetch tool calls the progress hook with one record.  An
\* exception of the hook leaves the hook and then extract_info, which the
\* tool does not guard: download_audio raises it to _download_worker.
FetchProgress(j) ==
    /\ wpc[j] = "fetch"
    /\ wrecs[j] < MaxRecords
    /\ \E d \in ProgressRecords \cup MalformedRecords :
        LET raised == _progress_hook_raises(d)
            out == IF raised THEN _progress_hook_before_raise(d)
                   ELSE _progress_hook(d)
        IN  /\ wbuf' = [wbuf EXCEPT ![j] = out]
            /\ wpc' = [wpc EXCEPT ![j] =
                          IF out # << >> THEN "hook"
                          ELSE IF raised THEN "except" ELSE "fetch"]
            /\ wlocal' = [wlocal EXCEPT ![j].exc = IF raised THEN HOOK_ERROR ELSE @]
            /\ wrecs' = [wrecs EXCEPT ![j] = IF raised /\ out = << >> THEN 0 ELSE @ + 1]
    /\ UNCHANGED << envVars, dirVars, uiVars, worker, njobs, wfmt, putVars, pollVars, histVars >>

\* The next emission of the running hook call, or of download_audio's end.
EmitBuffered(j) ==
    /\ wpc[j] \in { "hook", "finish" }
    /\ wbuf[j] # << >>
    /\ Put(j, Head(wbuf[j]))
    /\ wbuf' = [wbuf EXCEPT ![j] = Tail(@)]
    /\ wpc' = [wpc EXCEPT ![j] =
                  IF Len(wbuf[j]) > 1 THEN @
                  ELSE IF @ = "finish" THEN "return"
                  ELSE IF wlocal[j].exc # "" THEN "except" ELSE "fetch"]
    /\ wrecs' = [wrecs EXCEPT ![j] =
                  IF Len(wbuf[j]) = 1 /\ wpc[j] = "hook" /\ wlocal[j].exc # ""
                  THEN 0 ELSE @]
    /\ UNCHANGED << envVars, dirVars, uiVars, worker, njobs, wfmt, wlocal, pollVars, histVars >>

\* extract_info raises (network, extraction or disk failure).
FetchRaises(j) ==
    /\ wpc[j] = "fetch"
    /\ wpc' = [wpc EXCEPT ![j] = "except"]
    /\ wlocal' = [wlocal EXCEPT ![j].exc = FETCH_ERROR]
    /\ wrecs' = [wrecs EXCEPT ![j] = 0]
    /\ UNCHANGED << envVars, dirVars, uiVars, worker, njobs, wfmt, wbuf, putVars, pollVars, histVars >>

\* extract_info returns the metadata; download_audio computes its result and
\* goes on to its two final emissions.
FetchReturns(j) ==
    /\ wpc[j] = "fetch"
    /\ \E info \in Infos :
        wlocal' = [wlocal EXCEPT ![j].result = DownloadResult(info, wfmt[j])]
    /\ wbuf' = [wbuf EXCEPT ![j] = FinalEvents]
    /\ wpc' = [wpc EXCEPT ![j] = "finish"]
    /\ wrecs' = [wrecs EXCEPT ![j] = 0]
    /\ UNCHANGED << envVars, dirVars, uiVars, worker, njobs, wfmt, putVars, pollVars, histVars >>

\* Mutant of PutDone: the thread also re-enables the controls and writes the
\* status line itself.
PutDoneDirect(j) ==
    /\ wpc[j] = "return"
    /\ Put(j, UiEvent("done", ResultPayload(wlocal[j].result)))
    /\ wpc' = [wpc EXCEPT ![j] = "exit"]
    /\ wlocal' = [wlocal EXCEPT ![j] = NoLocal]
    /\ busy' = FALSE
    /\ status_var' = << "Done." >>
    /\ UNCHANGED << envVars, dirVars, url_var, format_combo, progress, log, worker,
                    njobs, wfmt, wrecs, wbuf, pollVars, histVars >>

\* _download_worker: self._events.put(UiEvent("done", result)).
PutDone(j) ==
    /\ wpc[j] = "return"
    /\ Put(j, UiEvent("done", ResultPayload(wlocal[j].result)))
    /\ wpc' = [wpc EXCEPT ![j] = "exit"]
    /\ wlocal' = [wlocal EXCEPT ![j] = NoLocal]
    /\ UNCHANGED << envVars, dirVars, uiVars, worker, njobs, wfmt, wrecs, wbuf, pollVars, histVars >>

\* Mutant of PutError: the except branch swallows the exception (pass).
PutErrorSwallowed(j) ==
    /\ wpc[j] = "except"
    /\ wpc' = [wpc EXCEPT ![j] = "exit"]
    /\ wlocal' = [wlocal EXCEPT ![j] = NoLocal]
    /\ UNCHANGED << envVars, dirVars, uiVars, worker, njobs, wfmt, wrecs, wbuf, putVars, pollVars,
                    histVars >>

\* _download_worker: except Exception as e: put(UiEvent("error", str(e))).
PutError(j) ==
    /\ wpc[j] = "except"
    /\ Put(j, UiEvent("error", ErrorPayload(wlocal[j].exc)))
    /\ wpc' = [wpc EXCEPT ![j] = "exit"]
    /\ wlocal' = [wlocal EXCEPT ![j] = NoLocal]
    /\ UNCHANGED << envVars, dirVars, uiVars, worker, njobs, wfmt, wrecs, wbuf, pollVars, histVars >>

\* The thread's run method ends: is_alive() turns False.  The thread's
\* arguments and the history of the running thread go with it.
ThreadExit(j) ==
    /\ wpc[j] = "exit"
    /\ wpc' = [wpc EXCEPT ![j] = "dead"]
    /\ wfmt' = [wfmt EXCEPT ![j] = "best"]
    /\ h_tail' = [h_tail EXCEPT ![j] = << >>]
    /\ h_fetched' = [h_fetched EXCEPT ![j] = FALSE]
    /\ h_ffmiss' = [h_ffmiss EXCEPT ![j] = FALSE]
    /\ wdir' = [wdir EXCEPT ![j] = NoPath]
    /\ UNCHANGED << envVars, fs_dirs, uiVars, worker, njobs, wrecs, wbuf, wlocal, events, h_fifo,
                    h_terms, pollVars, h_due, h_last, h_applied >>

WorkerNext ==
    \E j \in Jobs :
        \/ WorkerBegin(j)
        \/ EmitPreparing(j)
        \/ FetchProgress(j)
        \/ EmitBuffered(j)
        \/ FetchRaises(j)
        \/ FetchReturns(j)
        \/ PutDone(j)
        \/ PutError(j)
        \/ ThreadExit(j)

\* ---------------------------------------------------------- the UI thread

\* Tk runs one callback at a time: none starts while _poll_events runs.
UiIdle == pollpc = "scheduled"

\* App._set_progress: self.progress["value"] = max(0.0, min(100.0, pct)).
_set_progress(pct) == Max(0, Min(PCT_MAX, pct))

\* App._append_log: one more line at the end of the log view.
_append_log(lines) == lines + 1

\* Mutant of WorkerIsAlive: the thread counts as finished once it has put
\* its terminal event, though it has not ended yet.
WorkerNotPosted == worker # 0 /\ wpc[worker] \notin { "unstarted", "exit", "dead" }

\* The guard of on_convert_clicked: self._worker and self._worker.is_alive().
WorkerIsAlive == worker # 0 /\ IsAlive(worker)

\* The user types into the URL entry (its state is "normal" only when idle).
EditUrl ==
    /\ UiIdle
    /\ ~busy
    /\ \E u \in Urls : u # url_var /\ url_var' = u
    /\ UNCHANGED << envVars, dirVars, format_combo, busy, progress, status_var, log, worker, njobs,
                    threadVars, putVars, pollVars, histVars >>

\* The user picks a format (the combobox is "readonly" only when idle).
SelectFormat ==
    /\ UiIdle
    /\ ~busy
    /\ \E l \in FormatLabels : l # format_combo /\ format_combo' = l
    /\ UNCHANGED << envVars, dirVars, url_var, busy, progress, status_var, log, worker, njobs,
                    threadVars, putVars, pollVars, histVars >>

\* App.on_convert_clicked.  A rejected call (a worker is alive, or the URL is
\* blank) only shows a message box.
on_convert_clicked ==
    IF WorkerIsAlive \/ Strip(url_var) = ""
    THEN UNCHANGED vars
    ELSE /\ njobs < MaxJobs
         /\ busy' = TRUE
         /\ progress' = _set_progress(0)
         /\ status_var' = << "Starting..." >>
         /\ log' = _append_log(_append_log(_append_log(log)))
         /\ njobs' = njobs + 1
         /\ worker' = njobs + 1
         /\ wpc' = [wpc EXCEPT ![njobs + 1] = "started"]
         /\ wfmt' = [wfmt EXCEPT ![njobs + 1] = FormatLabelToValue(format_combo)]
         /\ fs_dirs' = _ensure_output_dir(fs_dirs, settings)
         /\ wdir' = [wdir EXCEPT ![njobs + 1] = _get_output_dir(settings)]
         /\ UNCHANGED << envVars, url_var, format_combo, wrecs, wbuf, wlocal,
                         putVars, pollVars, histVars >>

\* The Download button (command=self.on_convert_clicked); it is disabled
\* while busy.
ClickDownload ==
    /\ UiIdle
    /\ ~busy
    /\ on_convert_clicked

\* self.bind("<Return>", ...): the binding of the window, which the disabled
\* state of the controls does not remove.
PressReturn ==
    /\ UiIdle
    /\ on_convert_clicked

\* Mutant of _choose_save_root: the new root is kept in memory only.
_choose_save_root_unsaved ==
    IF WorkerIsAlive
    THEN UNCHANGED vars
    ELSE \E chosen \in RootTexts :
            IF chosen = << >>
            THEN UNCHANGED vars
            ELSE /\ nchoices < MaxChoices
                 /\ nchoices' = nchoices + 1
                 /\ settings' = Path(chosen)
                 /\ fs_dirs' = _ensure_output_dir(fs_dirs, Path(chosen))
                 /\ save_path_var' = PathStr(_get_output_dir(Path(chosen)))
                 /\ log' = _append_log(log)
                 /\ status_var' = << "Save location updated." >>
                 /\ UNCHANGED << fs_file, fs_cfg_ok, callVars, hookVars, wdir, url_var,
                                 format_combo, busy, progress, worker, njobs,
                                 threadVars, putVars, pollVars, histVars >>

\* App._choose_save_root.  A call made while a worker is alive only shows a
\* message box, and a cancelled dialog (the empty text) changes nothing (the empty text).  The
\* root is assigned before save_settings is called, so an exception of
\* save_settings leaves it assigned and skips the rest of the handler.
_choose_save_root ==
    IF WorkerIsAlive
    THEN UNCHANGED vars
    ELSE \E chosen \in RootTexts :
            IF chosen = << >>
            THEN UNCHANGED vars
            ELSE /\ nchoices < MaxChoices
                 /\ nchoices' = nchoices + 1
                 /\ settings' = Path(chosen)
                 /\ IF get_settings_path_raises(fs_cfg_ok)
                    THEN UNCHANGED << fs_file, fs_dirs, save_path_var, log, status_var >>
                    ELSE /\ fs_file' = save_settings(Path(chosen))
                         /\ fs_dirs' = _ensure_output_dir(fs_dirs, Path(chosen))
                         /\ save_path_var' = PathStr(_get_output_dir(Path(chosen)))
                         /\ log' = _append_log(log)
                         /\ status_var' = << "Save location updated." >>
                 /\ UNCHANGED << fs_cfg_ok, callVars, hookVars, wdir, url_var, format_combo,
                                 busy, progress, worker, njobs, threadVars,
                                 putVars, pollVars, histVars >>

\* The "Choose..." button (command=self._choose_save_root); it is disabled
\* while busy.
ClickChoose ==
    /\ UiIdle
    /\ ~busy
    /\ _choose_save_root

\* The user removes the output directory with a file manager.
UserDeletesOutputDir ==
    /\ _get_output_dir(settings) \in fs_dirs
    /\ fs_dirs' = fs_dirs \ { _get_output_dir(settings) }
    /\ UNCHANGED << envVars, wdir, uiVars, worker, njobs, threadVars, putVars,
                    pollVars, histVars >>

\* Mutant of BusyAfter: the error branch does not call _set_busy(False).
BusyAfterDoneOnly(kind, b) == IF kind = "done" THEN FALSE ELSE b

\* The busy state after an event of this kind has been applied.
BusyAfter(kind, b) == IF kind \in TerminalKinds THEN FALSE ELSE b

\* The UI state after _poll_events has applied event ev.
ApplyEvent(ev) ==
    /\ status_var' =
          CASE ev.kind = "status" -> ev.payload.text
            [] ev.kind = "done" -> << "Saved:" >> \o ev.payload.result.file_path
            [] ev.kind = "error" -> << "Error." >>
            [] OTHER -> status_var
    /\ progress' = IF ev.kind = "progress" THEN _set_progress(ev.payload.pct) ELSE progress
    /\ log' = IF ev.kind \in TerminalKinds THEN _append_log(log) ELSE log
    /\ busy' = BusyAfter(ev.kind, busy)
    /\ UNCHANGED << url_var, format_combo >>

\* Mutant of Finally: the reschedule follows the try statement instead of
\* being its finally clause, so a propagating exception skips it.
RescheduleAfterTry(pending, raised) == IF raised THEN pending ELSE pending + 1

\* The finally clause of _poll_events: self.after(POLL_MS, self._poll_events)
\* runs whether the try block ended normally or an exception is propagating.
\* The number of pending timer callbacks after it.
Finally(pending, raised) == pending + 1

\* The history of one application: ev left the queue and was handed to the UI.
Applied(ev) ==
    /\ events' = Tail(events)
    /\ h_last' = << ev >>
    /\ h_due' = << Head(h_fifo) >>
    /\ h_fifo' = Tail(h_fifo)
    /\ h_applied' = IF ev.kind \in TerminalKinds THEN h_applied \cup { ev.job }
                    ELSE h_applied

\* Mutant of _poll_events: `if` in place of `while True`: a tick pops and
\* applies at most one event and then reschedules.
_poll_events_single ==
    /\ pollpc = "scheduled" /\ after_count > 0
    /\ h_tickRaised' = FALSE
    /\ h_tickMany' = FALSE
    /\ pollpc' = "scheduled"
    /\ after_count' = Finally(after_count - 1, FALSE)
    /\ IF events = << >>
       THEN /\ h_tickLeft' = 0
            /\ UNCHANGED << uiVars, events, h_fifo, h_due, h_last, h_applied >>
       ELSE /\ Applied(Head(events))
            /\ ApplyEvent(Head(events))
            /\ h_tickLeft' = Len(events) - 1
    /\ UNCHANGED << envVars, dirVars, worker, njobs, threadVars, h_terms, h_tail,
                    h_fetched, h_ffmiss >>

\* One get_nowait() of App._poll_events, from the timer firing on: either
\* the queue is empty (queue.Empty is caught, the finally clause reschedules
\* and the tick ends) or the head event is popped and applied and the loop
\* goes on.
_poll_events ==
    /\ \/ pollpc = "scheduled" /\ after_count > 0
       \/ pollpc = "running"
    /\ LET starting == pollpc = "scheduled"
           pending == IF starting THEN after_count - 1 ELSE after_count
           left == IF starting THEN Len(events) ELSE h_tickLeft
           many == IF starting THEN Len(events) > 1 ELSE h_tickMany
       IN  /\ h_tickRaised' = FALSE
           /\ h_tickMany' = (many /\ events # << >>)
           /\ IF events = << >>
              THEN /\ pollpc' = "scheduled"
                   /\ after_count' = Finally(pending, FALSE)
                   /\ h_tickLeft' = left
                   /\ UNCHANGED << uiVars, events, h_fifo, h_due, h_last, h_applied >>
              ELSE /\ Applied(Head(events))
                   /\ ApplyEvent(Head(events))
                   /\ pollpc' = "running"
                   /\ after_count' = pending
                   /\ h_tickLeft' = Max(left - 1, 0)
    /\ UNCHANGED << envVars, dirVars, worker, njobs, threadVars, h_terms, h_tail,
                    h_fetched, h_ffmiss >>

\* A get_nowait() of App._poll_events whose event raises while it is applied
\* (a Tk error in the first widget call of its branch): nothing of the event
\* is applied, the exception leaves the loop and the finally clause
\* reschedules.
_poll_events_raises ==
    /\ \/ pollpc = "scheduled" /\ after_count > 0
       \/ pollpc = "running"
    /\ events # << >>
    /\ LET starting == pollpc = "scheduled"
           pending == IF starting THEN after_count - 1 ELSE after_count
           left == IF starting THEN Len(events) ELSE h_tickLeft
       IN  /\ Applied(Head(events))
           /\ pollpc' = "scheduled"
           /\ after_count' = Finally(pending, TRUE)
           /\ h_tickMany' = FALSE
           /\ h_tickLeft' = Max(left - 1, 0)
           /\ h_tickRaised' = TRUE
    /\ UNCHANGED << envVars, dirVars, uiVars, worker, njobs, threadVars, h_terms, h_tail,
                    h_fetched, h_ffmiss >>

\* ---------------------------------------------------------- specification

\* App.__init__ apart from the settings: the widgets, the empty queue, no
\* worker, the first timer.
InitWidgets ==
    /\ url_var = ""
    /\ format_combo = FormatValueToLabel(DEFAULT_OUTPUT_FORMAT)
    /\ busy = FALSE
    /\ progress = 0
    /\ status_var = << "Ready." >>
    /\ log = 0
    /\ worker = 0
    /\ njobs = 0
    /\ wpc = [j \in Jobs |-> "unstarted"]
    /\ wfmt = [j \in Jobs |-> "best"]
    /\ wrecs = [j \in Jobs |-> 0]
    /\ wbuf = [j \in Jobs |-> << >>]
    /\ wlocal = [j \in Jobs |-> NoLocal]
    /\ events = << >>
    /\ pollpc = "scheduled"
    /\ after_count = 1
    /\ h_fifo = << >>
    /\ h_due = << >>
    /\ h_last = << >>
    /\ h_terms = [j \in Jobs |-> 0]
    /\ h_fetched = [j \in Jobs |-> FALSE]
    /\ h_ffmiss = [j \in Jobs |-> FALSE]
    /\ h_tail = [j \in Jobs |-> << >>]
    /\ h_applied = { }
    /\ h_tickMany = FALSE
    /\ h_tickLeft = 0
    /\ h_tickRaised = FALSE
    /\ wdir = [j \in Jobs |-> NoPath]
    /\ nchoices = 0
    /\ st_op = "none"
    /\ st_raised = FALSE
    /\ st_saved = << >>
    /\ hk_pc = "fetch"
    /\ hk_n = 0
    /\ hk_d = NoRecord
    /\ hk_out = << >>
    /\ hk_known = FALSE
    /\ hk_nprog = 0

\* The state when App.__init__ has returned on a first start: load_settings
\* did not raise (the configuration directory could be created) and found no
\* settings file; _ensure_output_dir has run.
Init ==
    /\ InitWidgets
    /\ fs_cfg_ok = TRUE
    /\ fs_file = MissingFile
    /\ settings = load_settings(fs_file)
    /\ save_path_var = PathStr(_get_output_dir(settings))
    /\ fs_dirs = _ensure_output_dir(ExistingRoots, settings)

Next ==
    \/ EditUrl
    \/ SelectFormat
    \/ ClickDownload
    \/ PressReturn
    \/ _poll_events
    \/ WorkerNext

Spec == Init /\ [][Next]_vars

\* The same program when applying an event can raise in _poll_events.
NextFault == Next \/ _poll_events_raises

SpecFault == Init /\ [][NextFault]_vars

\* The program with the save-location chooser.
NextApp == Next \/ ClickChoose

SpecApp == Init /\ [][NextApp]_vars

\* The program with a user who may remove the output directory.
NextDirs == Next \/ UserDeletesOutputDir

SpecDirs == Init /\ [][NextDirs]_vars

\* settings.py on its own: a caller saves and loads while the settings file
\* may be rewritten by anyone between the calls.
CallSave ==
    /\ \E text \in RootTexts :
        IF get_settings_path_raises(fs_cfg_ok)
        THEN /\ st_raised' = TRUE
             /\ st_saved' = << >>
             /\ UNCHANGED fs_file
        ELSE /\ st_raised' = FALSE
             /\ st_saved' = << Path(text) >>
             /\ fs_file' = save_settings(Path(text))
    /\ st_op' = "save"
    /\ UNCHANGED << settings, save_path_var, fs_cfg_ok, nchoices, hookVars, dirVars, uiVars,
                    worker, njobs, threadVars, putVars, pollVars, histVars >>

CallLoad ==
    /\ IF get_settings_path_raises(fs_cfg_ok)
       THEN /\ st_raised' = TRUE
            /\ UNCHANGED settings
       ELSE /\ st_raised' = FALSE
            /\ settings' = load_settings(fs_file)
    /\ st_op' = "load"
    /\ UNCHANGED << st_saved, fs_file, save_path_var, fs_cfg_ok, nchoices, hookVars, dirVars,
                    uiVars, worker, njobs, threadVars, putVars, pollVars, histVars >>

\* The file is removed, damaged or rewritten from outside.
ExternalWrite ==
    /\ \E f \in FileContents : f # fs_file /\ fs_file' = f
    /\ st_op' = "none"
    /\ st_raised' = FALSE
    /\ st_saved' = << >>
    /\ UNCHANGED << settings, save_path_var, fs_cfg_ok, nchoices, hookVars, dirVars, uiVars,
                    worker, njobs, threadVars, putVars, pollVars, histVars >>

InitSettings ==
    /\ InitWidgets
    /\ fs_cfg_ok \in BOOLEAN
    /\ fs_file \in FileContents
    /\ settings = DEFAULT_SAVE_ROOT
    /\ save_path_var = PathStr(_get_output_dir(settings))
    /\ fs_dirs = ExistingRoots

NextSettings == CallSave \/ CallLoad \/ ExternalWrite

SpecSettings == InitSettings /\ [][NextSettings]_vars

\* downloader.py on its own: one download_audio call whose callbacks only
\* count, the fetch tool reporting any records.
Progresses(evs) == Len(SelectSeq(evs, LAMBDA e : e.kind = "progress"))

HookCall ==
    /\ hk_pc = "fetch"
    /\ hk_n < MaxRecords
    /\ \E d \in AllRecords :
        /\ hk_d' = d
        /\ hk_out' = _progress_hook(d)
        /\ hk_known' = (hk_known \/ d.total_bytes > 0 \/ d.total_bytes_estimate > 0)
        /\ hk_nprog' = hk_nprog + Progresses(_progress_hook(d))
    /\ hk_n' = hk_n + 1
    /\ UNCHANGED << hk_pc, settingsVars, callVars, dirVars, uiVars, worker, njobs,
                    threadVars, putVars, pollVars, histVars >>

HookReturn ==
    /\ hk_pc = "fetch"
    /\ hk_pc' = "returned"
    /\ hk_d' = NoRecord
    /\ hk_out' = FinalEvents
    /\ hk_nprog' = hk_nprog + Progresses(FinalEvents)
    /\ UNCHANGED << hk_n, hk_known, settingsVars, callVars, dirVars, uiVars, worker,
                    njobs, threadVars, putVars, pollVars, histVars >>

NextHook == HookCall \/ HookReturn

SpecHook == Init /\ [][NextHook]_vars

\* The scheduler runs a started thread until it ends (the external fetch
\* tool returns or raises) and Tk fires the pending timer.
FairSpec == Spec /\ WF_vars(WorkerNext) /\ WF_vars(_poll_events)


\* ------------------------------------------------------------ properties

\* Two tagged events are the same event.
SameEvent(a, b) == a.job = b.job /\ a.kind = b.kind /\ a.payload = b.payload

\* Two sequences of tagged events are the same.
SameEvents(p, q) ==
    /\ Len(p) = Len(q)
    /\ \A i \in 1..Len(p) : SameEvent(p[i], q[i])

\* The last element of a non-empty sequence.
Last(q) == q[Len(q)]

\* C1: a thread that has not reached the end of _download_worker has put no
\* terminal event more than once, and a thread at its end (about to exit, or
\* dead) has put exactly one terminal event; an unstarted thread has put none.
C1_OneTerminalEvent ==
    \A j \in Jobs :
        /\ h_terms[j] <= 1
        /\ wpc[j] \in { "exit", "dead" } => h_terms[j] = 1
        /\ wpc[j] \in { "unstarted", "started", "prepare", "fetch", "hook",
                        "finish", "return", "except" } => h_terms[j] = 0

\* One job ended in Done and was applied, another has put its error event.
C1_Witness ==
    \E j \in Jobs, k \in Jobs :
        /\ wpc[j] = "dead" /\ h_terms[j] = 1
        /\ h_last # << >> /\ h_last[1].kind = "done" /\ h_last[1].job = j
        /\ wpc[k] = "exit" /\ h_terms[k] = 1 /\ Last(h_tail[k]).kind = "error"

\* C2 (as claimed): while the controls are disabled (the busy state is set),
\* no step starts a thread or replaces the worker handle.
C2_BusyRejects == [][busy => (njobs' = njobs /\ worker' = worker)]_vars

\* C3: at most one worker thread is alive.
C3_AtMostOneAlive == Cardinality({ j \in Jobs : IsAlive(j) }) <= 1

\* A second thread is running after the first one has ended.
C3_Witness ==
    \E j \in Jobs, k \in Jobs : wpc[j] = "dead" /\ wpc[k] = "fetch"

\* C4: the queue holds exactly the events put and not yet applied, oldest
\* first, and the event the UI applied last is the oldest one that was due:
\* events are applied in the order they were put, each once.
C4_AppliedInPutOrder ==
    /\ SameEvents(events, h_fifo)
    /\ Len(h_last) = Len(h_due)
    /\ h_last # << >> => SameEvent(h_last[1], h_due[1])

\* In the middle of a tick, after an application, two different events of a
\* running thread wait in the queue.
C4_Witness ==
    /\ pollpc = "running"
    /\ h_last # << >>
    /\ Len(events) >= 2
    /\ events[1].job = events[2].job
    /\ events[1].kind # events[2].kind
    /\ IsAlive(events[1].job)

\* C5: every progress event in the queue carries a value in [0,100] and the
\* progress bar's value is in [0,100].
C5_ProgressInRange ==
    /\ \A i \in 1..Len(events) :
          events[i].kind = "progress" =>
              (events[i].payload.pct >= 0 /\ events[i].payload.pct <= PCT_MAX)
    /\ progress >= 0 /\ progress <= PCT_MAX

\* The hook has put the progress event of a record with downloaded > total
\* (the only record whose percentage clamps to 100), and the bar shows a
\* value strictly inside the range.
C5_Witness ==
    /\ \E j \in Jobs :
          /\ wpc[j] = "hook"
          /\ events # << >>
          /\ Last(events).job = j
          /\ Last(events).kind = "progress"
          /\ Last(events).payload.pct = PCT_MAX
    /\ progress = 0

\* C6: a running mp3 job that found ffmpeg or ffprobe missing never enters
\* the external fetch tool and puts nothing but one error event carrying the
\* installation guidance, which it has put when it is about to exit.
C6_FfmpegMissingFailsFirst ==
    \A j \in Jobs :
        h_ffmiss[j] =>
            /\ wfmt[j] = "mp3"
            /\ ~h_fetched[j]
            /\ Len(h_tail[j]) <= 1
            /\ h_tail[j] # << >> =>
                  /\ h_tail[j][1].kind = "error"
                  /\ h_tail[j][1].payload.text = << FFMPEG_GUIDANCE >>
            /\ wpc[j] = "exit" => Len(h_tail[j]) = 1

\* An mp3 job with the transcoder missing has put its only event.
C6_Witness ==
    \E j \in Jobs : h_ffmiss[j] /\ wpc[j] = "exit" /\ Len(h_tail[j]) = 1

\* C7: under fairness of the threads and of the poll timer, every started
\* job is eventually followed by a state where its terminal event has been
\* applied, the controls are enabled and on_convert_clicked would not reject
\* for a live worker.
C7_EventuallyIdleAgain ==
    \A j \in Jobs :
        (wpc[j] # "unstarted") ~> (j \in h_applied /\ ~busy /\ ~WorkerIsAlive)

\* Two jobs have been applied, the last one a failure, and the UI is idle.
C7_Witness ==
    /\ h_applied = { 1, 2 }
    /\ ~busy
    /\ ~WorkerIsAlive
    /\ h_last[1].kind = "error"
    /\ log > 0

\* C8: exactly one execution of _poll_events is pending whenever none is
\* running, and none is pending while one runs: every execution, also one
\* that an exception ends, schedules exactly one further execution.
C8_OnePendingTick ==
    after_count = IF pollpc = "scheduled" THEN 1 ELSE 0

\* A tick ended by an exception has rescheduled itself.
C8_Witness == h_tickRaised /\ pollpc = "scheduled" /\ after_count = 1

\* C9: when a tick in which no application raised has ended, every event
\* that was queued when it began has been applied; and a running tick can
\* always take its next step (get_nowait never waits).
C9_TickDrainsQueue ==
    /\ (pollpc = "scheduled" /\ ~h_tickRaised) => h_tickLeft = 0
    /\ pollpc = "running" => ENABLED _poll_events

\* A tick that began with several events queued has applied them all and
\* is about to observe the empty queue.
C9_Witness ==
    pollpc = "running" /\ h_tickMany /\ h_tickLeft = 0 /\ events = << >>

\* C10: a thread that has put the Done event has put Status("Done."),
\* Progress(100) and Done as its last three events, in this order; a live
\* thread that has put its terminal event has put nothing after it, and a
\* dead thread puts nothing.
C10_DoneTail ==
    \A j \in Jobs :
        /\ (h_tail[j] # << >> /\ Last(h_tail[j]).kind = "done") =>
              /\ Len(h_tail[j]) = 3
              /\ h_tail[j][1].kind = "status"
              /\ h_tail[j][1].payload.text = << "Done." >>
              /\ h_tail[j][2].kind = "progress"
              /\ h_tail[j][2].payload.pct = PCT_MAX
        /\ (IsAlive(j) /\ h_terms[j] > 0) => Last(h_tail[j]).kind \in TerminalKinds
        /\ wpc[j] = "dead" => h_tail[j] = << >>

\* A job that reported a progress record has put its Done event.
C10_Witness ==
    \E j \in Jobs :
        /\ wpc[j] = "exit"
        /\ Last(h_tail[j]).kind = "done"
        /\ wrecs[j] = 0
        /\ h_fetched[j]


\* C11: an exception raised while the progress hook handles a record stays
\* inside the hook: no thread ever catches the hook's exception in
\* _download_worker (where it would turn the job into Failed).
C11_HookExceptionSwallowed == \A j \in Jobs : wlocal[j].exc # HOOK_ERROR


\* A step of a worker thread: a started thread moves, a hook call begins or
\* the queue grows.
WorkerStep ==
    \/ \E j \in Jobs : wpc[j] # "unstarted" /\ wpc'[j] # wpc[j]
    \/ wrecs' # wrecs
    \/ wbuf' # wbuf
    \/ Len(events') > Len(events)

\* C12: a step of a worker thread leaves the displayed status, the progress
\* value, the log, the busy/control state, the entries, the worker handle and
\* the settings (in memory, shown and on disk) unchanged.
C12_WorkerChangesOnlyQueue ==
    [][WorkerStep => UNCHANGED << status_var, progress, log, busy, url_var,
                                  format_combo, worker, njobs, settings,
                                  save_path_var, fs_file >>]_vars

\* A thread has run to its end and put its events while the UI still shows
\* what the submission left.
C12_Witness ==
    /\ worker # 0
    /\ wpc[worker] = "exit"
    /\ Len(events) = 2
    /\ busy
    /\ status_var = << "Starting..." >>
    /\ progress = 0

\* C13: a load_settings that follows a save_settings (the file untouched in
\* between) does not raise and returns the save root that was saved.
C13_RoundTrip ==
    (st_op = "load" /\ st_saved # << >>) =>
        (~st_raised /\ settings = st_saved[1])

\* A root other than the default, written with a trailing separator, was
\* saved and loaded back.
C13_Witness ==
    /\ st_op = "load"
    /\ st_saved = << Path(<< "home", "music", "" >>) >>
    /\ settings = Path(<< "home", "music" >>)
    /\ settings # DEFAULT_SAVE_ROOT

\* The settings file gives no usable save_root.
Unusable(file) ==
    \/ file.state \in { "missing", "garbage" }
    \/ file.top # "object"
    \/ file.has /\ file.vtype # "string"

\* C14: load_settings never raises, and returns the default save root when
\* the settings file is missing, is not JSON or holds no usable save_root.
C14_LoadNeverRaises ==
    st_op = "load" =>
        /\ ~st_raised
        /\ Unusable(fs_file) => settings = DEFAULT_SAVE_ROOT

C16_OutputDirKept ==
    [][/\ \A j \in Jobs :
              (wpc[j] = "unstarted" /\ wpc'[j] = "started") => wdir'[j] \in fs_dirs'
       /\ UserDeletesOutputDir \/ fs_dirs \subseteq fs_dirs']_vars

\* A job has failed and its output directory exists.
C16_Witness ==
    \E j \in Jobs :
        /\ wpc[j] = "exit"
        /\ h_tail[j] # << >>
        /\ Last(h_tail[j]).kind = "error"
        /\ wdir[j] \in fs_dirs

\* C17: for a "downloading" record without a positive total the hook emits
\* one Status event, whose size phrase is the transferred size alone, and no
\* Progress event; a download whose records were all without a positive total
\* has emitted one Progress event when it returns, the final 100.
C17_UnknownTotal ==
    /\ (hk_d.status = "downloading" /\ ~(hk_d.total_bytes > 0)
            /\ ~(hk_d.total_bytes_estimate > 0)) =>
          /\ Len(hk_out) = 1
          /\ hk_out[1].kind = "status"
          /\ SubSeq(hk_out[1].payload.text, 1, 2) = << "Downloading:", "downloaded MiB" >>
          /\ \A i \in 1..Len(hk_out[1].payload.text) :
                hk_out[1].payload.text[i] # "downloaded / total MiB"
    /\ (hk_pc = "returned" /\ ~hk_known) =>
          /\ hk_nprog = 1
          /\ Last(hk_out) = _emit_progress(PCT_MAX)

\* A download whose only record had no total has returned.
C17_Witness ==
    /\ hk_pc = "returned"
    /\ hk_n > 0
    /\ ~hk_known
    /\ hk_nprog = 1

\* C18: whenever a worker thread is alive the input controls are disabled.
C18_AliveImpliesBusy == (\E j \in Jobs : IsAlive(j)) => busy

\* C19: the events in the queue are all of one job, and an event applied
\* while the queue is read is of the job submitted last.
C19_OneJobInQueue ==
    /\ \A i, k \in 1..Len(events) : events[i].job = events[k].job
    /\ (pollpc = "running" /\ h_last # << >>) => h_last[1].job = worker

\* A step of a UI handler other than the poll loop: no thread that runs
\* moves, the queue and the timer are as before.
UiHandlerStep ==
    /\ \A j \in Jobs : wpc[j] # "unstarted" => wpc'[j] = wpc[j]
    /\ UNCHANGED << wrecs, wbuf, wlocal, events, pollpc, after_count >>

\* C20: no UI handler run while the URL entry is empty or blank starts a
\* thread or changes the worker handle, the busy state, the progress value
\* or the queue, and no terminal event is put.
C20_BlankSubmissionNoOp ==
    [][(url_var \in { "", " " } /\ UiHandlerStep) =>
          UNCHANGED << worker, njobs, wpc, busy, progress, events, h_terms >>]_vars

\* The Download button is enabled with a blank URL after a job has ended.
C20_Witness ==
    /\ url_var = " "
    /\ njobs = 1
    /\ ~busy
    /\ UiIdle
    /\ ~WorkerIsAlive

=============================================================================
